---- MODULE Spec2Model ----
(***************************************************************************)
(* A model of the bulk-sync engine of the migration scripts:                *)
(*   src/index.ts                 the migration run (create-or-update)      *)
(*   src/backup.ts                the backup run (users, orgs, memberships) *)
(*   src/unnamed/part_000         the user-only backup run                  *)
(*   src/org_ids/orgs_get_ids.ts  the earlier backup run (second main)      *)
(*                                                                         *)
(* JavaScript values are encoded as sequences of strings: a JS string is    *)
(* the sequence of its characters (each a one-character string), and the    *)
(* values undefined, null, true and false are one-element sequences holding *)
(* a longer token, so that no JS string equals any of them.                 *)
(***************************************************************************)
EXTENDS Integers, Sequences, FiniteSets, TLC

Undefined == <<"undefined">>

Null == <<"null">>

JsTrue == <<"true">>

JsFalse == <<"false">>

Quote == <<"\"">>

(* The result of parseInt on a text with no leading digits. *)
NaN == -1

----------------------------------------------------------------------------
(* Bounds of the model. *)

(* Longest input file, in records. *)
MaxRecords == 2

(* Most rate-limit answers the service gives to create requests in one run. *)
MaxRateLimits == 2

(* Largest page size of the backup runs, and largest sizes of the listed    *)
(* collections: users, organizations, memberships of one organization.      *)
MaxPageSize == 2

MaxUsers == 4

MaxOrgs == 3

MaxMembers == 2

(* Most list requests of one traversal the model follows. *)
MaxPages == 6

(* Longest name, in characters, of the runs over every name. *)
MaxNameLen == 5

(* Most changes of a listed collection's size during one backup run. *)
MaxChanges == 1

----------------------------------------------------------------------------
(* String helpers: what the JS built-ins used by the source compute. *)

RECURSIVE TrimStart(_)
TrimStart(s) ==
  IF s # <<>> /\ Head(s) = " " THEN TrimStart(Tail(s)) ELSE s

RECURSIVE TrimEnd(_)
TrimEnd(s) ==
  IF s # <<>> /\ s[Len(s)] = " " THEN TrimEnd(SubSeq(s, 1, Len(s) - 1)) ELSE s

(* String.prototype.trim *)
Trim(s) == TrimEnd(TrimStart(s))

(* String.prototype.split(sep) for a one-character separator: every single *)
(* separator divides two tokens, so two consecutive separators yield an     *)
(* empty token; the result is never an empty array.                         *)
RECURSIVE SplitFrom(_, _, _)
SplitFrom(s, sep, tok) ==
  IF s = <<>> THEN <<tok>>
  ELSE IF Head(s) = sep THEN <<tok>> \o SplitFrom(Tail(s), sep, <<>>)
  ELSE SplitFrom(Tail(s), sep, Append(tok, Head(s)))

Split(s, sep) == SplitFrom(s, sep, <<>>)

Digits == <<"0", "1", "2", "3", "4", "5", "6", "7", "8", "9">>

IsDigit(c) == \E d \in 1..10 : Digits[d] = c

DigitVal(c) == (CHOOSE d \in 1..10 : Digits[d] = c) - 1

(* The digits a text starts with, read as a decimal number. *)
RECURSIVE LeadingDigits(_, _)
LeadingDigits(s, acc) ==
  IF s # <<>> /\ IsDigit(Head(s))
  THEN LeadingDigits(Tail(s), acc * 10 + DigitVal(Head(s)))
  ELSE acc

(* parseInt(text): skips leading blanks, reads the leading digits and stops *)
(* at the first character that is not a digit; NaN when there is none.      *)
ParseInt(s) ==
  LET t == TrimStart(s)
  IN IF t # <<>> /\ IsDigit(Head(t)) THEN LeadingDigits(t, 0) ELSE NaN

(* a ?? b *)
Coalesce(a, b) == IF a = Undefined \/ a = Null THEN b ELSE a

(* Mutant: the whole array, whatever the start. *)
SliceAll(arr, start) == arr

(* Array.prototype.slice(start) for start >= 0 or NaN (NaN counts as 0). *)
Slice(arr, start) ==
  LET from == IF start = NaN THEN 0 ELSE start
  IN IF from >= Len(arr) THEN <<>> ELSE SubSeq(arr, from + 1, Len(arr))

----------------------------------------------------------------------------
(* Record Transformer: src/index.ts *)

JsNumber == <<"number">>

(* z.string(): the value is a JS string. *)
IsString(v) == v \notin {Undefined, Null, JsTrue, JsFalse, JsNumber}

(* z.boolean() *)
IsBoolean(v) == v \in {JsTrue, JsFalse}

Letters == {"a", "b", "c", "d", "o", "u", "x", "y"}

(* z.string().email(): a non-empty local part, one "@", and a domain of     *)
(* dot-separated non-empty labels, at least two, the last of two or more    *)
(* letters.                                                                 *)
IsEmail(v) ==
  /\ IsString(v)
  /\ LET parts == Split(v, "@")
     IN /\ Len(parts) = 2
        /\ parts[1] # <<>>
        /\ \A k \in 1..Len(parts[1]) : parts[1][k] \notin {" ", "\""}
        /\ LET labels == Split(parts[2], ".")
           IN /\ Len(labels) >= 2
              /\ \A k \in 1..Len(labels) :
                    /\ labels[k] # <<>>
                    /\ \A j \in 1..Len(labels[k]) :
                          labels[k][j] \in Letters \cup {"1", "2"}
              /\ Len(labels[Len(labels)]) >= 2
              /\ \A j \in 1..Len(labels[Len(labels)]) :
                    labels[Len(labels)][j] \in Letters

(* Mutant: the schema without the consent flag. *)
SchemaOkNoConsent(userData) ==
  /\ IsString(userData.userId)
  /\ IsEmail(userData.email)
  /\ userData.name = Undefined \/ IsString(userData.name)
  /\ userData.location = Undefined \/ IsString(userData.location)

(* userSchema.safeParse(userData).success *)
SchemaOk(userData) ==
  /\ IsString(userData.userId)
  /\ IsEmail(userData.email)
  /\ userData.name = Undefined \/ IsString(userData.name)
  /\ userData.location = Undefined \/ IsString(userData.location)
  /\ IsBoolean(userData.agreedTerms)

(* Mutant: the first two tokens of any name of two or more tokens. *)
splitNameFirstTwo(name) ==
  IF name = Quote THEN <<Undefined, Undefined>>
  ELSE LET trimmed == IF name = Undefined THEN Undefined ELSE Trim(name)
           nameParts == IF trimmed = Undefined THEN <<>> ELSE Split(trimmed, " ")
       IN IF Len(nameParts) >= 2
          THEN <<nameParts[1], nameParts[2]>>
          ELSE <<trimmed, Undefined>>

(* splitName: [firstName, lastName] *)
splitName(name) ==
  IF name = Quote THEN <<Undefined, Undefined>>
  ELSE LET trimmed == IF name = Undefined THEN Undefined ELSE Trim(name)
           nameParts == IF trimmed = Undefined THEN <<>> ELSE Split(trimmed, " ")
       IN IF Len(nameParts) = 2
          THEN <<nameParts[1], nameParts[2]>>
          ELSE <<trimmed, Undefined>>

(* let org = userData.location; if (org === '"') org = undefined *)
OrgOf(userData) ==
  IF userData.location = Quote THEN Undefined ELSE userData.location

(* The argument createUser passes to clerkClient.users.createUser. *)
CreatePayload(userData) ==
  [ externalId     |-> userData.userId,
    emailAddress   |-> userData.email,
    firstName      |-> splitName(userData.name)[1],
    lastName       |-> splitName(userData.name)[2],
    publicMetadata |-> [ agreedTerms  |-> userData.agreedTerms,
                         emailConsent |-> JsFalse,
                         org          |-> OrgOf(userData) ] ]

(* The field diff of updateUser: strict inequality (!==) field by field. *)
NeedsUpdate(existing, userData) ==
  \/ existing.externalId # userData.userId
  \/ existing.firstName # splitName(userData.name)[1]
  \/ existing.lastName # splitName(userData.name)[2]
  \/ existing.publicMetadata.agreedTerms # userData.agreedTerms
  \/ existing.publicMetadata.org # OrgOf(userData)
  \/ existing.createOrganizationEnabled

(* The argument updateUser passes to clerkClient.users.updateUser. *)
UpdatePayload(userData) ==
  [ externalId     |-> userData.userId,
    firstName      |-> splitName(userData.name)[1],
    lastName       |-> splitName(userData.name)[2],
    publicMetadata |-> [ agreedTerms  |-> userData.agreedTerms,
                         emailConsent |-> JsFalse,
                         org          |-> OrgOf(userData) ],
    createOrganizationEnabled |-> FALSE,
    deleteSelfEnabled         |-> FALSE ]

----------------------------------------------------------------------------
(* The remote identity service, as the engine sees it (spec section 6).     *)

(* An absent name or external identifier is reported as null. *)
Stored(v) == IF v = Undefined THEN Null ELSE v

(* create-entity is rejected with a conflict when the email address or the  *)
(* external identifier is already in use.                                   *)
CreateConflicts(entities, payload) ==
  \E k \in 1..Len(entities) :
     \/ entities[k].email = payload.emailAddress
     \/ entities[k].externalId = payload.externalId

(* The entity the service stores for an accepted create request. *)
CreatedEntity(entities, payload, orgCreate) ==
  [ id             |-> Len(entities) + 1,
    externalId     |-> Stored(payload.externalId),
    email          |-> payload.emailAddress,
    firstName      |-> Stored(payload.firstName),
    lastName       |-> Stored(payload.lastName),
    publicMetadata |-> payload.publicMetadata,
    createOrganizationEnabled |-> orgCreate,
    deleteSelfEnabled         |-> TRUE ]

(* list-collection-by-email: the entities with that email, in store order. *)
ByEmail(entities, email) ==
  SelectSeq(entities, LAMBDA e : e.email = email)

(* update-entity is rejected with a conflict when another entity already    *)
(* holds the external identifier.                                           *)
UpdateConflicts(entities, id, payload) ==
  \E k \in 1..Len(entities) :
     entities[k].id # id /\ entities[k].externalId = payload.externalId

(* The store after an accepted update of entity id. *)
UpdatedStore(entities, id, payload) ==
  [ k \in 1..Len(entities) |->
      IF entities[k].id = id
      THEN [ entities[k] EXCEPT
               !.externalId = Stored(payload.externalId),
               !.firstName = Stored(payload.firstName),
               !.lastName = Stored(payload.lastName),
               !.publicMetadata = payload.publicMetadata,
               !.createOrganizationEnabled = payload.createOrganizationEnabled,
               !.deleteSelfEnabled = payload.deleteSelfEnabled ]
      ELSE entities[k] ]

----------------------------------------------------------------------------
(* State. *)

VARIABLES
  env,          \* process.env: the recognised options, each a string or undefined
  file,         \* the parsed input file (parsedUserData)
  pc,           \* where the migration run stands
  DELAY,        \* index.ts:10
  RETRY_DELAY,  \* index.ts:11
  OFFSET,       \* index.ts:13
  offsetUsers,  \* index.ts:184
  cur,          \* position of userData in offsetUsers (the for-of iterator)
  i,            \* index.ts:189
  migrated,     \* index.ts:129
  updated,      \* index.ts:130
  log,          \* the audit log file: the payloads appended so far
  response,     \* updateUser: response.data of the lookup by email
  store,        \* the destination entities held by the remote service
  store0,       \* history: the store when the run began
  orgCreate,    \* the service's default for createOrganizationEnabled
  trace,        \* history: the sleeps and remote calls, in the order they happened
  printed,      \* the counts printed when main() resolved
  bk,           \* the backup run: its program, control position and locals
  remote,       \* the collections the remote service lists
  requests      \* history: the list requests of the backup run, in order

vars ==
  << env, file, pc, DELAY, RETRY_DELAY, OFFSET, offsetUsers, cur, i, migrated,
     updated, log, response, store, store0, orgCreate, trace, printed,
     bk, remote, requests >>

(* The state of the backup run. *)
backupVars == << bk, remote, requests >>

(* The state of the migration run. *)
migrationVars ==
  << env, file, pc, DELAY, RETRY_DELAY, OFFSET, offsetUsers, cur, i, migrated,
     updated, log, response, store, store0, orgCreate, trace, printed >>

(* The record being processed. *)
userData == offsetUsers[cur]

(* An event: a sleep (val is its duration in ms) or a remote call (val is    *)
(* the status it was answered with, found is how many entities a lookup     *)
(* returned, target is the id of the entity an update was issued for).      *)
Ev(op, rec, val) ==
  [ op |-> op, rec |-> rec, val |-> val, found |-> 0, target |-> 0 ]

LookupEv(rec, found) ==
  [ op |-> "getUserList", rec |-> rec, val |-> 200, found |-> found,
    target |-> 0 ]

UpdateEv(rec, val, target) ==
  [ op |-> "updateUser", rec |-> rec, val |-> val, found |-> 0,
    target |-> target ]

(* The events of record rec, in order. *)
EventsOf(rec) == SelectSeq(trace, LAMBDA e : e.rec = rec)

(* How many events of kind op record rec has. *)
Count(op, rec) == Len(SelectSeq(trace, LAMBDA e : e.rec = rec /\ e.op = op))

(* How many create attempts of record rec were answered with status. *)
CountCreate(rec, status) ==
  Len(SelectSeq(trace,
        LAMBDA e : e.rec = rec /\ e.op = "createUser" /\ e.val = status))

----------------------------------------------------------------------------
(* Inputs of the model. *)

KeyLive == <<"s", "k", "_", "l", "i", "v", "e", "_", "1">>

KeyTest == <<"s", "k", "_", "t", "e", "s", "t", "_", "1">>

EmailA == <<"a", "@", "x", ".", "c", "o">>

EmailB == <<"b", "@", "x", ".", "c", "o">>

(* A two-token name and an organization hint. *)
RecJane ==
  [ userId |-> <<"u", "1">>, email |-> EmailA, name |-> <<"a", " ", "b">>,
    location |-> <<"x">>, agreedTerms |-> JsTrue ]

(* A one-token name and the quotation-mark-only organization hint. *)
RecCher ==
  [ userId |-> <<"u", "2">>, email |-> EmailB, name |-> <<"c">>,
    location |-> Quote, agreedTerms |-> JsFalse ]

(* Neither a name nor an organization hint. *)
RecAnon ==
  [ userId |-> <<"u", "1">>, email |-> EmailA, name |-> Undefined,
    location |-> Undefined, agreedTerms |-> JsTrue ]

(* An email that is not email-shaped. *)
RecBadEmail ==
  [ userId |-> <<"u", "2">>, email |-> <<"b", "x">>, name |-> <<"a", " ", "b">>,
    location |-> Undefined, agreedTerms |-> JsTrue ]

(* The entity the service holds once record r was synchronised to it. *)
Synced(r, id) ==
  [ id             |-> id,
    externalId     |-> r.userId,
    email          |-> r.email,
    firstName      |-> Stored(splitName(r.name)[1]),
    lastName       |-> Stored(splitName(r.name)[2]),
    publicMetadata |-> [ agreedTerms  |-> r.agreedTerms,
                         emailConsent |-> JsFalse,
                         org          |-> OrgOf(r) ],
    createOrganizationEnabled |-> FALSE,
    deleteSelfEnabled         |-> FALSE ]

(* Entities with the email of r: the synchronised one and those that differ *)
(* from it in one field.                                                    *)
Variants(r, id) ==
  LET e == Synced(r, id)
  IN { e,
       [e EXCEPT !.externalId = Null],
       [e EXCEPT !.externalId = <<"u", "9">>],
       [e EXCEPT !.firstName = <<"z">>],
       [e EXCEPT !.lastName = <<"z">>],
       [e EXCEPT !.publicMetadata.agreedTerms = Undefined],
       [e EXCEPT !.publicMetadata.agreedTerms =
                    IF r.agreedTerms = JsTrue THEN JsFalse ELSE JsTrue],
       [e EXCEPT !.publicMetadata.org = <<"y">>],
       [e EXCEPT !.createOrganizationEnabled = TRUE],
       [e EXCEPT !.deleteSelfEnabled = TRUE] }

(* All sequences over S of length at most n. *)
SeqsUpTo(S, n) == UNION { [1..k -> S] : k \in 0..n }

EnvLive ==
  [ CLERK_SECRET_KEY |-> KeyLive, DELAY_MS |-> Undefined,
    RETRY_DELAY_MS |-> Undefined, IMPORT_TO_DEV_INSTANCE |-> Undefined,
    OFFSET |-> Undefined ]

(* The environments of the configuration runs. *)
Envs ==
  { EnvLive,
    [EnvLive EXCEPT !.CLERK_SECRET_KEY = Undefined],
    [EnvLive EXCEPT !.CLERK_SECRET_KEY = <<>>],
    [EnvLive EXCEPT !.CLERK_SECRET_KEY = KeyTest],
    [EnvLive EXCEPT !.CLERK_SECRET_KEY = KeyTest,
                    !.IMPORT_TO_DEV_INSTANCE = <<"t", "r", "u", "e">>],
    [EnvLive EXCEPT !.CLERK_SECRET_KEY = KeyTest,
                    !.IMPORT_TO_DEV_INSTANCE = <<"f", "a", "l", "s", "e">>],
    [EnvLive EXCEPT !.CLERK_SECRET_KEY = KeyTest,
                    !.IMPORT_TO_DEV_INSTANCE = <<"0">>],
    [EnvLive EXCEPT !.DELAY_MS = <<"5">>, !.RETRY_DELAY_MS = <<"2", "0">>],
    [EnvLive EXCEPT !.OFFSET = <<"1">>],
    [EnvLive EXCEPT !.OFFSET = <<"2">>],
    [EnvLive EXCEPT !.OFFSET = <<"3">>] }

(* What every run starts from, whatever its environment, file and store. *)
Fresh ==
  /\ pc = "module"
  /\ DELAY = NaN
  /\ RETRY_DELAY = NaN
  /\ OFFSET = NaN
  /\ offsetUsers = <<>>
  /\ cur = 0
  /\ i = 0
  /\ migrated = 0
  /\ updated = 0
  /\ log = <<>>
  /\ response = <<>>
  /\ trace = <<>>
  /\ printed = <<>>
  /\ store0 = store

(* No backup run. *)
NoBackup ==
  /\ bk = [ prog |-> "none", pc |-> "idle" ]
  /\ remote = [ users |-> 0, orgs |-> 0, members |-> <<>>, changes |-> 0 ]
  /\ requests = <<>>

(* Runs over every input file of up to MaxRecords records. *)
InitRun ==
  /\ env = EnvLive
  /\ file \in SeqsUpTo({RecJane, RecCher, RecBadEmail}, MaxRecords)
  /\ store \in { <<>>, <<[Synced(RecAnon, 1) EXCEPT !.externalId = Null]>> }
  /\ orgCreate = TRUE
  /\ Fresh
  /\ NoBackup

(* Runs of one record against a store that already holds its email. *)
InitDiff ==
  /\ env = EnvLive
  /\ \E r \in {RecJane, RecCher, RecAnon} :
        /\ file \in { <<r>>, <<r, r>> }
        /\ store \in { <<>> }
                    \cup { <<e>> : e \in Variants(r, 1) }
                    \cup { <<e, Synced(r, 2)>> : e \in Variants(r, 1) }
                    \cup { <<e, [Synced(r, 2) EXCEPT !.externalId = Null]>> :
                              e \in Variants(r, 1) }
                    \cup { <<Synced(RecCher, 1), e>> : e \in Variants(r, 2) }
  /\ orgCreate \in BOOLEAN
  /\ Fresh
  /\ NoBackup

(* Runs under every environment. *)
InitConfig ==
  /\ env \in Envs
  /\ file = <<RecJane, RecCher>>
  /\ store = <<>>
  /\ orgCreate = TRUE
  /\ Fresh
  /\ NoBackup

(* Records that fail the schema: RecJane with one field missing or of the   *)
(* wrong type.                                                              *)
InvalidRecs ==
  { [RecJane EXCEPT !.userId = Undefined],
    [RecJane EXCEPT !.userId = JsNumber],
    [RecJane EXCEPT !.email = Undefined],
    [RecJane EXCEPT !.email = JsNumber],
    [RecJane EXCEPT !.email = <<"a", "@", "x">>],
    [RecJane EXCEPT !.agreedTerms = Undefined],
    [RecJane EXCEPT !.agreedTerms = <<"t", "r", "u", "e">>],
    [RecJane EXCEPT !.name = JsNumber] }

(* Runs over files that hold a record failing the schema. *)
InitInvalid ==
  /\ env = EnvLive
  /\ \E bad \in InvalidRecs :
        file \in { <<bad>>, <<bad, RecJane>>, <<RecCher, bad>>, <<bad, bad>> }
  /\ store = <<>>
  /\ orgCreate = TRUE
  /\ Fresh
  /\ NoBackup

(* The decimal text of a number below 10. *)
NumText(k) == << Digits[k + 1] >>

(* Runs resumed at every offset from 0 to past the end of the file. *)
InitOffset ==
  /\ \E k \in 0..(MaxRecords + 1) : env = [EnvLive EXCEPT !.OFFSET = NumText(k)]
  /\ file \in SeqsUpTo({RecJane, RecCher}, MaxRecords)
  /\ store = <<>>
  /\ orgCreate = TRUE
  /\ Fresh
  /\ NoBackup

(* The characters names are made of: a letter, the space, the quotation    *)
(* mark.                                                                    *)
NameChars == {"a", " ", "\""}

(* Runs of one record with every name of up to MaxNameLen characters, and   *)
(* with no name.                                                            *)
InitNames ==
  /\ env = EnvLive
  /\ \E n \in SeqsUpTo(NameChars, MaxNameLen) \cup {Undefined} :
        file = << [RecAnon EXCEPT !.name = n] >>
  /\ store = <<>>
  /\ orgCreate = TRUE
  /\ Fresh
  /\ NoBackup

(* Runs against a store in which another email holds the external          *)
(* identifier of the first record.                                          *)
InitClash ==
  /\ env = EnvLive
  /\ file \in { << RecJane >>, << RecJane, RecCher >> }
  /\ store = << [ Synced(RecCher, 1) EXCEPT !.externalId = RecJane.userId ] >>
  /\ orgCreate = TRUE
  /\ Fresh
  /\ NoBackup

Init ==
  \/ InitRun
  \/ InitDiff
  \/ InitConfig
  \/ InitInvalid
  \/ InitOffset
  \/ InitNames
  \/ InitClash

----------------------------------------------------------------------------
(* Module level of src/index.ts: configuration. *)

DefaultDelayText == <<"1", "_", "0", "0", "0">>

DefaultRetryDelayText == <<"1", "0", "_", "0", "0", "0">>

(* !SECRET_KEY *)
KeyMissing(e) == e.CLERK_SECRET_KEY = Undefined \/ e.CLERK_SECRET_KEY = <<>>

(* SECRET_KEY.split("_")[1] *)
KeySegment(e) ==
  LET parts == Split(e.CLERK_SECRET_KEY, "_")
  IN IF Len(parts) >= 2 THEN parts[2] ELSE Undefined

(* SECRET_KEY.split("_")[1] !== "live" && IMPORT_TO_DEV === "false" *)
KeyRefused(e) ==
  /\ KeySegment(e) # <<"l", "i", "v", "e">>
  /\ Coalesce(e.IMPORT_TO_DEV_INSTANCE, <<"f", "a", "l", "s", "e">>)
       = <<"f", "a", "l", "s", "e">>

ReadOptions ==
  /\ DELAY' = ParseInt(Coalesce(env.DELAY_MS, DefaultDelayText))
  /\ RETRY_DELAY' = ParseInt(Coalesce(env.RETRY_DELAY_MS, DefaultRetryDelayText))
  /\ OFFSET' = ParseInt(Coalesce(env.OFFSET, <<"0">>))

(* index.ts:9-25, a check throws: the process ends before main() is called. *)
ModuleAbort ==
  /\ pc = "module"
  /\ KeyMissing(env) \/ KeyRefused(env)
  /\ ReadOptions
  /\ pc' = "aborted"
  /\ UNCHANGED << env, file, offsetUsers, cur, i, migrated, updated, log,
                  response, store, store0, orgCreate, trace, printed,
                  backupVars >>

(* index.ts:9-25, both checks pass. *)
ModuleOk ==
  /\ pc = "module"
  /\ ~KeyMissing(env)
  /\ ~KeyRefused(env)
  /\ ReadOptions
  /\ pc' = "main"
  /\ UNCHANGED << env, file, offsetUsers, cur, i, migrated, updated, log,
                  response, store, store0, orgCreate, trace, printed,
                  backupVars >>

----------------------------------------------------------------------------
(* main() of src/index.ts. *)

(* setTimeout(r, ms): a delay that is not a number of at least 1 counts as 1. *)
TimerDelay(ms) == IF ms < 1 THEN 1 ELSE ms

(* cooldown(): the pacing sleep. *)
PacingSleep == TimerDelay(DELAY)

(* rateLimitCooldown(): the sleep after a rate-limit signal. *)
CooldownSleep == TimerDelay(RETRY_DELAY)

(* index.ts:181-190 *)
MainStart ==
  /\ pc = "main"
  /\ offsetUsers' = Slice(file, OFFSET)
  /\ i' = 0
  /\ cur' = 0
  /\ pc' = "loop"
  /\ UNCHANGED << env, file, DELAY, RETRY_DELAY, OFFSET, migrated, updated, log,
                  response, store, store0, orgCreate, trace, printed,
                  backupVars >>

(* The for-of iterator: the position of the record after position p. *)
NextPosition(p) == p + 1

(* Mutant: the loop calls processUserToClerk without the pacing sleep. *)
LoopNextNoSleep ==
  /\ pc = "loop"
  /\ cur < Len(offsetUsers)
  /\ cur' = NextPosition(cur)
  /\ i' = i + 1
  /\ pc' = "create"
  /\ UNCHANGED << env, file, DELAY, RETRY_DELAY, OFFSET, offsetUsers, migrated,
                  updated, log, response, store, store0, orgCreate, trace, printed,
                  backupVars >>

(* index.ts:192-194, the loop takes the next record and starts its pacing sleep. *)
LoopNext ==
  /\ pc = "loop"
  /\ cur < Len(offsetUsers)
  /\ cur' = NextPosition(cur)
  /\ trace' = Append(trace, Ev("cooldown", cur', PacingSleep))
  /\ pc' = "cooldown"
  /\ UNCHANGED << env, file, DELAY, RETRY_DELAY, OFFSET, offsetUsers, i, migrated,
                  updated, log, response, store, store0, orgCreate, printed,
                  backupVars >>

(* index.ts:200-207, the input is exhausted: main() resolves, the counts are printed. *)
LoopExit ==
  /\ pc = "loop"
  /\ cur >= Len(offsetUsers)
  /\ printed' = <<migrated, updated>>
  /\ pc' = "done"
  /\ UNCHANGED << env, file, DELAY, RETRY_DELAY, OFFSET, offsetUsers, cur, i,
                  migrated, updated, log, response, store, store0, orgCreate, trace,
                  backupVars >>

(* index.ts:194-197, the pacing sleep is over: processUserToClerk is called. *)
CooldownDone ==
  /\ pc = "cooldown"
  /\ i' = i + 1
  /\ pc' = "create"
  /\ UNCHANGED << env, file, DELAY, RETRY_DELAY, OFFSET, offsetUsers, cur, migrated,
                  updated, log, response, store, store0, orgCreate, trace, printed,
                  backupVars >>

----------------------------------------------------------------------------
(* processUserToClerk and updateUser of src/index.ts. *)

(* The error thrown for a record that fails the schema: it has no status. *)
ZodError == [ name |-> "ZodError", status |-> 0 ]

ApiError(status) == [ name |-> "ClerkAPIResponseError", status |-> status ]

(* appendLog({ userId: userData.userId, ...error }) *)
AuditEntry(rec, error) ==
  [ rec |-> rec, userId |-> offsetUsers[rec].userId, error |-> error ]

(* Mutant: the log file is written anew (writeFileSync) by every call. *)
appendLogRewrite(entries, payload) == << payload >>

(* appendLog: fs.appendFileSync adds the payload at the end of the file. *)
appendLog(entries, payload) == Append(entries, payload)

(* Mutant: the catch block without its rate-limit branch. *)
CatchBranchNoRetry(status) ==
  IF status = 422 THEN "update" ELSE "log"

(* Mutant: the catch block retrying every error that is not a conflict. *)
CatchBranchRetryAll(status) ==
  IF status = 422 THEN "update" ELSE "retry"

(* Mutant: the catch block without its conflict branch. *)
CatchBranchNoUpdate(status) ==
  IF status = 429 THEN "retry" ELSE "log"

(* The catch block of processUserToClerk: what it does with an error of     *)
(* this status.                                                             *)
CatchBranch(status) ==
  IF status = 422 THEN "update"
  ELSE IF status = 429 THEN "retry"
  ELSE "log"

(* The rate-limit answers the service still gives in this run. *)
RateLimitsLeft ==
  Len(SelectSeq(trace, LAMBDA e : e.op = "createUser" /\ e.val = 429))
    < MaxRateLimits

(* The failures create-entity can answer the current record with. *)
CreateFailures ==
  {500} \cup (IF RateLimitsLeft THEN {429} ELSE {})
        \cup (IF CreateConflicts(store, CreatePayload(userData)) THEN {422} ELSE {})

(* index.ts:135-138 and 162: the record fails the schema; the error has no  *)
(* status, so it is logged.                                                 *)
ProcessInvalid ==
  /\ pc = "create"
  /\ ~SchemaOk(userData)
  /\ CatchBranch(ZodError.status) = "log"
  /\ log' = appendLog(log, AuditEntry(cur, ZodError))
  /\ pc' = "loop"
  /\ UNCHANGED << env, file, DELAY, RETRY_DELAY, OFFSET, offsetUsers, cur, i,
                  migrated, updated, response, store, store0, orgCreate, trace, printed,
                  backupVars >>

(* Mutant: the created counter advanced by two. *)
CountCreatedTwice(n) == n + 2

(* The counter after a successful create: migrated++ *)
CountCreated(n) == n + 1

(* index.ts:139-141, create-entity succeeds. *)
CreateUserOk ==
  /\ pc = "create"
  /\ SchemaOk(userData)
  /\ ~CreateConflicts(store, CreatePayload(userData))
  /\ store' = Append(store, CreatedEntity(store, CreatePayload(userData), orgCreate))
  /\ migrated' = CountCreated(migrated)
  /\ trace' = Append(trace, Ev("createUser", cur, 200))
  /\ pc' = "loop"
  /\ UNCHANGED << env, file, DELAY, RETRY_DELAY, OFFSET, offsetUsers, cur, i,
                  updated, log, response, store0, orgCreate, printed,
                  backupVars >>

(* index.ts:143-146, create-entity fails with a conflict: updateUser is     *)
(* called and issues the lookup by email.                                   *)
CreateUserConflict ==
  /\ pc = "create"
  /\ SchemaOk(userData)
  /\ \E status \in CreateFailures :
        /\ CatchBranch(status) = "update"
        /\ trace' = Append(trace, Ev("createUser", cur, status))
  /\ pc' = "getUserList"
  /\ UNCHANGED << env, file, DELAY, RETRY_DELAY, OFFSET, offsetUsers, cur, i,
                  migrated, updated, log, response, store, store0, orgCreate, printed,
                  backupVars >>

(* index.ts:155-157, create-entity fails with a rate-limit signal: the      *)
(* cooldown sleep starts.                                                   *)
CreateUserRateLimited ==
  /\ pc = "create"
  /\ SchemaOk(userData)
  /\ \E status \in CreateFailures :
        /\ CatchBranch(status) = "retry"
        /\ trace' = trace \o << Ev("createUser", cur, status),
                                Ev("rateLimitCooldown", cur, CooldownSleep) >>
  /\ pc' = "rateLimitCooldown"
  /\ UNCHANGED << env, file, DELAY, RETRY_DELAY, OFFSET, offsetUsers, cur, i,
                  migrated, updated, log, response, store, store0, orgCreate, printed,
                  backupVars >>

(* index.ts:162, create-entity fails with any other error: it is logged. *)
CreateUserOther ==
  /\ pc = "create"
  /\ SchemaOk(userData)
  /\ \E status \in CreateFailures :
        /\ CatchBranch(status) = "log"
        /\ trace' = Append(trace, Ev("createUser", cur, status))
        /\ log' = appendLog(log, AuditEntry(cur, ApiError(status)))
  /\ pc' = "loop"
  /\ UNCHANGED << env, file, DELAY, RETRY_DELAY, OFFSET, offsetUsers, cur, i,
                  migrated, updated, response, store, store0, orgCreate, printed,
                  backupVars >>

(* Mutant: the retry is issued for the record before the current one. *)
RetryPrevious(p) == IF p > 1 THEN p - 1 ELSE p

(* The record processUserToClerk is called with again after the cooldown. *)
RetryPosition(p) == p

(* index.ts:157-159, the cooldown sleep is over: processUserToClerk is      *)
(* called again with the same record.                                       *)
RateLimitCooldownDone ==
  /\ pc = "rateLimitCooldown"
  /\ cur' = RetryPosition(cur)
  /\ pc' = "create"
  /\ UNCHANGED << env, file, DELAY, RETRY_DELAY, OFFSET, offsetUsers, i, migrated,
                  updated, log, response, store, store0, orgCreate, trace, printed,
                  backupVars >>

(* The failures the lookup by email and update-entity can answer with       *)
(* whatever the store holds.                                                *)
TransientFailures == {429, 500}

(* Mutant: the last entity the lookup returned. *)
ExistingLast(data) == data[Len(data)]

(* const existing = response.data[0] *)
Existing(data) == data[1]

(* index.ts:85-89 and 147-151, the lookup finds no entity, or one that      *)
(* needs no update: updateUser returns undefined and the record is done.    *)
GetUserListNoUpdate ==
  /\ pc = "getUserList"
  /\ response' = ByEmail(store, userData.email)
  /\ ~(Len(response') > 0 /\ NeedsUpdate(Existing(response'), userData))
  /\ trace' = Append(trace, LookupEv(cur, Len(response')))
  /\ pc' = "loop"
  /\ UNCHANGED << env, file, DELAY, RETRY_DELAY, OFFSET, offsetUsers, cur, i,
                  migrated, updated, log, store, store0, orgCreate, printed,
                  backupVars >>

(* index.ts:85-104, the first entity found differs: update-entity is issued. *)
GetUserListThenUpdate ==
  /\ pc = "getUserList"
  /\ response' = ByEmail(store, userData.email)
  /\ Len(response') > 0
  /\ NeedsUpdate(Existing(response'), userData)
  /\ trace' = Append(trace, LookupEv(cur, Len(response')))
  /\ pc' = "updateUser"
  /\ UNCHANGED << env, file, DELAY, RETRY_DELAY, OFFSET, offsetUsers, cur, i,
                  migrated, updated, log, store, store0, orgCreate, printed,
                  backupVars >>

(* index.ts:85 and 146, the lookup fails: the error is thrown inside the    *)
(* catch block, so processUserToClerk and main() reject with it.            *)
GetUserListFailed ==
  /\ pc = "getUserList"
  /\ \E status \in TransientFailures :
        trace' = Append(trace, Ev("getUserList", cur, status))
  /\ pc' = "rejected"
  /\ UNCHANGED << env, file, DELAY, RETRY_DELAY, OFFSET, offsetUsers, cur, i,
                  migrated, updated, log, response, store, store0, orgCreate, printed,
                  backupVars >>

(* The counter after a successful update: updated++ *)
CountUpdated(n) == n + 1

(* index.ts:104-116 and 147-151, update-entity succeeds. *)
UpdateUserOk ==
  /\ pc = "updateUser"
  /\ ~UpdateConflicts(store, Existing(response).id, UpdatePayload(userData))
  /\ store' = UpdatedStore(store, Existing(response).id, UpdatePayload(userData))
  /\ updated' = CountUpdated(updated)
  /\ trace' = Append(trace, UpdateEv(cur, 200, Existing(response).id))
  /\ pc' = "loop"
  /\ UNCHANGED << env, file, DELAY, RETRY_DELAY, OFFSET, offsetUsers, cur, i,
                  migrated, log, response, store0, orgCreate, printed,
                  backupVars >>

(* index.ts:104 and 146, update-entity fails: the error is thrown inside    *)
(* the catch block, so processUserToClerk and main() reject with it.        *)
UpdateUserFailed ==
  /\ pc = "updateUser"
  /\ \E status \in TransientFailures \cup
         (IF UpdateConflicts(store, Existing(response).id, UpdatePayload(userData))
          THEN {422} ELSE {}) :
        trace' = Append(trace, UpdateEv(cur, status, Existing(response).id))
  /\ pc' = "rejected"
  /\ UNCHANGED << env, file, DELAY, RETRY_DELAY, OFFSET, offsetUsers, cur, i,
                  migrated, updated, log, response, store, store0, orgCreate, printed,
                  backupVars >>

Next ==
  \/ ModuleAbort
  \/ ModuleOk
  \/ MainStart
  \/ LoopNext
  \/ LoopExit
  \/ CooldownDone
  \/ ProcessInvalid
  \/ CreateUserOk
  \/ CreateUserConflict
  \/ CreateUserRateLimited
  \/ CreateUserOther
  \/ RateLimitCooldownDone
  \/ GetUserListNoUpdate
  \/ GetUserListThenUpdate
  \/ GetUserListFailed
  \/ UpdateUserOk
  \/ UpdateUserFailed

Spec == Init /\ [][Next]_vars

(* The run when no timer and no remote call hangs: every sleep ends and     *)
(* every awaited call is answered, so a step that can be taken is taken.    *)
(* The service stops answering create with a rate-limit signal after at     *)
(* most MaxRateLimits of them (RateLimitsLeft).                             *)
SpecLive == Spec /\ WF_vars(Next)

----------------------------------------------------------------------------
(* Vocabulary of the claims. *)

Recs == 1..Len(offsetUsers)

RemoteOps == {"createUser", "getUserList", "updateUser"}

(* processUserToClerk has returned for record rec. *)
Resolved(rec) == rec < cur \/ (rec = cur /\ pc \in {"loop", "done"})

(* The audit entries of record rec. *)
AuditOf(rec) == SelectSeq(log, LAMBDA a : a.rec = rec)

Created(rec) == CountCreate(rec, 200) > 0

Updated(rec) ==
  \E k \in 1..Len(trace) :
     trace[k].rec = rec /\ trace[k].op = "updateUser" /\ trace[k].val = 200

(* An entity was found by email and no update was issued. *)
NoChangeNeeded(rec) ==
  /\ Resolved(rec)
  /\ \E k \in 1..Len(trace) :
        trace[k].rec = rec /\ trace[k].op = "getUserList" /\ trace[k].found > 0
  /\ Count("updateUser", rec) = 0

(* A failure that is neither a conflict nor a rate-limit signal. *)
OtherFailure(e) == e.op \in RemoteOps /\ e.val \notin {200, 422, 429}

----------------------------------------------------------------------------
(* C1: record-level failure isolation. Every failure of a remote call made  *)
(* for record N (create, lookup by email or update) that is neither a       *)
(* conflict nor a rate-limit signal leaves the run going: an audit entry    *)
(* for N is appended and the run is not halted.                             *)
C1_FailureIsolated ==
  \A k \in 1..Len(trace) :
     OtherFailure(trace[k]) =>
        /\ pc # "rejected"
        /\ Len(AuditOf(trace[k].rec)) = 1

(* C4: the cooldown sleeps of a record are as many as the rate-limit        *)
(* answers to its create attempts; a record whose create is answered with k *)
(* rate-limit signals and then succeeds has had k + 1 create attempts, no   *)
(* other remote call and no audit entry, and is counted once as created.    *)
C4_RateLimitedThenCreated ==
  /\ \A rec \in Recs :
        LET k == CountCreate(rec, 429)
        IN /\ Count("rateLimitCooldown", rec) = k
           /\ CountCreate(rec, 200) <= 1
           /\ Created(rec) =>
                 /\ Count("createUser", rec) = k + 1
                 /\ Count("getUserList", rec) = 0
                 /\ Count("updateUser", rec) = 0
                 /\ AuditOf(rec) = <<>>
                 /\ Resolved(rec)
  /\ migrated = Cardinality({ rec \in Recs : Created(rec) })

C4_Witness ==
  /\ pc = "done"
  /\ \E rec \in Recs : Created(rec) /\ CountCreate(rec, 429) = 2

(* C5: every rate-limit signal, from the create call or from the lookup or  *)
(* update call of the conflict path, is followed by the cooldown sleep and  *)
(* a new create attempt for the same record; it never halts the run and     *)
(* never becomes an audit entry.                                            *)
C5_RateLimitCools ==
  /\ \A k \in 1..Len(trace) :
        (trace[k].op \in RemoteOps /\ trace[k].val = 429) =>
           /\ pc # "rejected"
           /\ k < Len(trace)
           /\ trace[k + 1] = Ev("rateLimitCooldown", trace[k].rec, CooldownSleep)
           /\ k + 2 <= Len(trace) =>
                 /\ trace[k + 2].op = "createUser"
                 /\ trace[k + 2].rec = trace[k].rec
  /\ \A a \in 1..Len(log) : log[a].error.status # 429

(* C6: a create that fails with an error that is neither a conflict nor a   *)
(* rate-limit signal yields exactly one audit entry, carrying the record's  *)
(* source identifier; the record changes no counter and is not retried, and *)
(* the run goes on with the next record.                                    *)
C6_OtherErrorLogged ==
  /\ \A k \in 1..Len(trace) :
        (trace[k].op = "createUser" /\ OtherFailure(trace[k])) =>
           LET rec == trace[k].rec
           IN /\ Len(AuditOf(rec)) = 1
              /\ AuditOf(rec)[1].userId = offsetUsers[rec].userId
              /\ AuditOf(rec)[1].error.status = trace[k].val
              /\ ~Created(rec)
              /\ ~Updated(rec)
              /\ Resolved(rec)
              /\ k < Len(trace) => trace[k + 1] = Ev("cooldown", rec + 1, PacingSleep)
  /\ migrated = Cardinality({ rec \in Recs : Created(rec) })
  /\ updated = Cardinality({ rec \in Recs : Updated(rec) })

C6_Witness ==
  /\ pc = "done"
  /\ \E k \in 1..Len(trace) :
        /\ trace[k].op = "createUser"
        /\ OtherFailure(trace[k])
        /\ k < Len(trace)

(* Two values are the same field value: equal, or both absent. *)
SameValue(a, b) == a = b \/ (a \in {Null, Undefined} /\ b \in {Null, Undefined})

(* The entity differs from the source record in one of the six fields. *)
FieldsDiffer(existing, r) ==
  \/ ~SameValue(existing.externalId, r.userId)
  \/ ~SameValue(existing.firstName, splitName(r.name)[1])
  \/ ~SameValue(existing.lastName, splitName(r.name)[2])
  \/ ~SameValue(existing.publicMetadata.agreedTerms, r.agreedTerms)
  \/ ~SameValue(existing.publicMetadata.org, OrgOf(r))
  \/ existing.createOrganizationEnabled

(* C7: after a conflict, when the lookup by email returns at least one      *)
(* entity, update-entity is issued, and the updated counter incremented, if *)
(* and only if the first entity differs from the source record in one of    *)
(* the six fields; no audit entry is appended either way.                   *)
C7_UpdateIffDiffers ==
  /\ (/\ trace # <<>>
      /\ trace[Len(trace)].op = "getUserList"
      /\ trace[Len(trace)].found > 0)
       => (pc = "updateUser"
             <=> FieldsDiffer(response[1], offsetUsers[trace[Len(trace)].rec]))
  /\ pc # "updateUser" =>
        updated = Cardinality({ rec \in Recs : Count("updateUser", rec) > 0 })
  /\ \A k \in 1..Len(trace) :
        (trace[k].op = "getUserList" /\ trace[k].found > 0) =>
           AuditOf(trace[k].rec) = <<>>

(* C8: against a service that answers a create for a used email with a     *)
(* conflict, a record is created only when no entity held its email, and    *)
(* exactly one entity holds it afterwards; when the same record is          *)
(* processed again and its create is answered with the conflict, it         *)
(* resolves to Updated or NoChangeNeeded, never to a second Created.        *)
C8_Idempotent ==
  \A a \in Recs :
     /\ Created(a) =>
           /\ ByEmail(store0, offsetUsers[a].email) = <<>>
           /\ Len(ByEmail(store, offsetUsers[a].email)) = 1
     /\ \A b \in Recs :
           (a < b /\ offsetUsers[a] = offsetUsers[b] /\ Created(a)) =>
              /\ ~Created(b)
              /\ (Resolved(b) /\ CountCreate(b, 422) > 0) =>
                    (Updated(b) \/ NoChangeNeeded(b))

C8_Witness ==
  /\ pc = "done"
  /\ Len(offsetUsers) = 2
  /\ offsetUsers[1] = offsetUsers[2]
  /\ Created(1)
  /\ NoChangeNeeded(2)

(* C9: the sleeps and remote calls happen one record after the other, in    *)
(* input order: the events of record N all precede those of record N+1,     *)
(* every record starts with its pacing sleep, and record N+1 starts only    *)
(* after record N has resolved (no cooldown or retry of N is outstanding).  *)
C9_Sequential ==
  /\ trace # <<>> => trace[1] = Ev("cooldown", 1, PacingSleep)
  /\ \A k \in 1..(Len(trace) - 1) :
        \/ trace[k + 1].rec = trace[k].rec /\ trace[k + 1].op # "cooldown"
        \/ /\ trace[k + 1] = Ev("cooldown", trace[k].rec + 1, PacingSleep)
           /\ trace[k].op # "rateLimitCooldown"
           /\ trace[k].val # 429
  /\ \A k \in 1..Len(trace) : trace[k].rec <= cur
  /\ \A a \in 1..Len(log) : log[a].rec <= cur
  /\ offsetUsers = <<>> \/ offsetUsers = Slice(file, OFFSET)

C9_Witness ==
  \E j, k \in 1..Len(trace) :
     /\ j < k
     /\ trace[j].op = "rateLimitCooldown"
     /\ trace[j].rec = 1
     /\ trace[k].op = "createUser"
     /\ trace[k].rec = 2

(* C10: with the pacing-delay and cooldown-delay options not configured,    *)
(* the pacing sleep lasts 1000 ms and the cooldown sleep 10000 ms.          *)
C10_DefaultDelays ==
  \A k \in 1..Len(trace) :
     /\ (trace[k].op = "cooldown" /\ env.DELAY_MS = Undefined)
          => trace[k].val = 1000
     /\ (trace[k].op = "rateLimitCooldown" /\ env.RETRY_DELAY_MS = Undefined)
          => trace[k].val = 10000

----------------------------------------------------------------------------
(* The backup runs: src/backup.ts, src/unnamed/part_000 and the second      *)
(* main of src/org_ids/orgs_get_ids.ts.                                     *)
(*                                                                         *)
(* The sources fix the page size (limit = 500); the traversals do not       *)
(* depend on its value, and the model runs them for every page size from 1  *)
(* to MaxPageSize. An item of a collection is its position in the           *)
(* collection's sort order.                                                 *)

(* list-collection(offset, limit) over a collection of n items: the items   *)
(* at offset+1 .. min(offset+limit, n), and the total count n.              *)
Page(n, offset, limit) ==
  [ data |-> [ k \in 1..(IF offset >= n THEN 0
                          ELSE IF offset + limit <= n THEN limit
                          ELSE n - offset) |-> offset + k ],
    totalCount |-> n ]

(* Mutant: the stop test with >= in place of >. *)
HasMoreOrEqual(totalCount, length) == totalCount >= length

(* totalCount > items.length *)
HasMore(totalCount, length) == totalCount > length

(* The list requests issued so far for a collection (for memberships: of    *)
(* organization org; 0 otherwise).                                          *)
RequestsFor(coll, org) ==
  SelectSeq(requests, LAMBDA r : r.coll = coll /\ r.org = org)

(* A list request that was answered with a page: the request and the       *)
(* response (its items, the total it reports).                              *)
Req(coll, org, offset, rsp) ==
  [ coll |-> coll, org |-> org, offset |-> offset, ok |-> TRUE,
    data |-> rsp.data, total |-> rsp.totalCount ]

(* A list request that failed. *)
FailedReq(coll, org, offset) ==
  [ coll |-> coll, org |-> org, offset |-> offset, ok |-> FALSE,
    data |-> <<>>, total |-> 0 ]

(* Mutant: the offset advanced by one item. *)
NextOffsetByOne(offset, limit) == offset + 1

(* offset = offset + limit *)
NextOffset(offset, limit) == offset + limit

(* The model follows a traversal for at most MaxPages requests. *)
Followed(coll, org) == Len(RequestsFor(coll, org)) < MaxPages

BackupStart(prog) ==
  [ prog |-> prog, pc |-> "users", limit |-> 1, offset |-> 0,
    users |-> <<>>, hasMoreUsers |-> FALSE, totalUsers |-> 0,
    orgs |-> <<>>, hasMoreOrgs |-> FALSE, totalOrgs |-> 0,
    o |-> 0, orgMemberships |-> <<>>, memberOffset |-> 0,
    hasMoreMemberships |-> FALSE, orgMemberRecords |-> <<>>,
    userCsv |-> <<>>, orgCsv |-> <<>>, memberCsv |-> <<>>,
    backedUpUsers |-> 0, backedUpOrgs |-> 0, backedUpMemberships |-> 0,
    failed |-> "none", pending |-> {}, domains |-> <<>>, reordered |-> FALSE ]

Programs == {"backup", "userBackup", "orgIds"}

InitBackup ==
  /\ env = EnvLive
  /\ file = <<>>
  /\ store = <<>>
  /\ orgCreate = TRUE
  /\ Fresh
  /\ \E prog \in Programs, limit \in 1..MaxPageSize :
        bk = [ BackupStart(prog) EXCEPT !.limit = limit ]
  /\ \E nu \in 0..MaxUsers, no \in 0..MaxOrgs :
        \E nm \in [1..no -> 0..MaxMembers] :
           remote = [ users |-> nu, orgs |-> no, members |-> nm, changes |-> 0 ]
  /\ bk.prog = "userBackup" => remote.orgs = 0
  /\ requests = <<>>

(* One list request of a traversal that reads the total from every          *)
(* response (the do-while loops): the locals after the response.            *)
(*   items.push(...response.data); hasMore = response.totalCount >          *)
(*   items.length; offset = offset + limit                                  *)
UsersDoWhile ==
  /\ bk.prog = "backup"
  /\ bk.pc = "users"
  /\ Followed("users", 0)
  /\ LET rsp == Page(remote.users, bk.offset, bk.limit)
         users == bk.users \o rsp.data
         more == HasMore(rsp.totalCount, Len(users))
     IN bk' = [ bk EXCEPT !.users = users,
                          !.hasMoreUsers = more,
                          !.offset = NextOffset(bk.offset, bk.limit),
                          !.pc = IF more THEN "users" ELSE "exportUsers" ]
  /\ requests' = Append(requests,
        Req("users", 0, bk.offset, Page(remote.users, bk.offset, bk.limit)))
  /\ UNCHANGED << remote, migrationVars >>

(* Mutant: the number of items of the first page captured as the total. *)
CapturedPageLength(rsp) == Len(rsp.data)

(* let total = response.totalCount *)
CapturedTotal(rsp) == rsp.totalCount

(* part_000:64-74 and orgs_get_ids.ts:182-195: the first request, without   *)
(* an offset; the total is captured from its response.                      *)
UsersFirst ==
  /\ bk.prog \in {"userBackup", "orgIds"}
  /\ bk.pc = "users"
  /\ LET rsp == Page(remote.users, 0, bk.limit)
         more == HasMore(CapturedTotal(rsp), Len(rsp.data))
     IN bk' = [ bk EXCEPT !.users = rsp.data,
                          !.totalUsers = CapturedTotal(rsp),
                          !.hasMoreUsers = more,
                          !.pc = IF more THEN "moreUsers" ELSE "exportUsers" ]
  /\ requests' = Append(requests,
        Req("users", 0, 0, Page(remote.users, 0, bk.limit)))
  /\ UNCHANGED << remote, migrationVars >>

(* part_000:75-85 and orgs_get_ids.ts:196-205: a further request; the stop  *)
(* test uses the captured total.                                            *)
UsersMore ==
  /\ bk.prog \in {"userBackup", "orgIds"}
  /\ bk.pc = "moreUsers"
  /\ Followed("users", 0)
  /\ LET offset == NextOffset(bk.offset, bk.limit)
         rsp == Page(remote.users, offset, bk.limit)
         users == bk.users \o rsp.data
         more == HasMore(bk.totalUsers, Len(users))
     IN /\ bk' = [ bk EXCEPT !.users = users,
                             !.offset = offset,
                             !.hasMoreUsers = more,
                             !.pc = IF more THEN "moreUsers" ELSE "exportUsers" ]
        /\ requests' = Append(requests, Req("users", 0, offset, rsp))
  /\ UNCHANGED << remote, migrationVars >>

(* backup.ts:159-192, part_000:87-120, orgs_get_ids.ts:207-240: the user    *)
(* rows are written; the user-only backup ends here, the others reset the   *)
(* offset for the organizations.                                            *)
ExportUsers ==
  /\ bk.pc = "exportUsers"
  /\ bk' = [ bk EXCEPT !.userCsv = bk.users,
                       !.backedUpUsers = Len(bk.users),
                       !.offset = IF bk.prog = "userBackup" THEN bk.offset ELSE 0,
                       !.pc = IF bk.prog = "userBackup" THEN "done" ELSE "orgs" ]
  /\ UNCHANGED << remote, requests, migrationVars >>

(* backup.ts:196-206 *)
OrgsDoWhile ==
  /\ bk.prog = "backup"
  /\ bk.pc = "orgs"
  /\ Followed("orgs", 0)
  /\ LET rsp == Page(remote.orgs, bk.offset, bk.limit)
         orgs == bk.orgs \o rsp.data
         more == HasMore(rsp.totalCount, Len(orgs))
     IN bk' = [ bk EXCEPT !.orgs = orgs,
                          !.hasMoreOrgs = more,
                          !.offset = NextOffset(bk.offset, bk.limit),
                          !.pc = IF more THEN "orgs" ELSE "exportOrgs" ]
  /\ requests' = Append(requests,
        Req("orgs", 0, bk.offset, Page(remote.orgs, bk.offset, bk.limit)))
  /\ UNCHANGED << remote, migrationVars >>

(* orgs_get_ids.ts:241-252 *)
OrgsFirst ==
  /\ bk.prog = "orgIds"
  /\ bk.pc = "orgs"
  /\ LET rsp == Page(remote.orgs, 0, bk.limit)
         more == HasMore(rsp.totalCount, Len(rsp.data))
     IN bk' = [ bk EXCEPT !.orgs = rsp.data,
                          !.totalOrgs = rsp.totalCount,
                          !.hasMoreOrgs = more,
                          !.pc = IF more THEN "moreOrgs" ELSE "exportOrgs" ]
  /\ requests' = Append(requests,
        Req("orgs", 0, 0, Page(remote.orgs, 0, bk.limit)))
  /\ UNCHANGED << remote, migrationVars >>

(* orgs_get_ids.ts:253-262: the stop test reads totalUsers. *)
OrgsMore ==
  /\ bk.prog = "orgIds"
  /\ bk.pc = "moreOrgs"
  /\ Followed("orgs", 0)
  /\ LET offset == NextOffset(bk.offset, bk.limit)
         rsp == Page(remote.orgs, offset, bk.limit)
         orgs == bk.orgs \o rsp.data
         more == HasMore(bk.totalUsers, Len(orgs))
     IN /\ bk' = [ bk EXCEPT !.orgs = orgs,
                             !.offset = offset,
                             !.hasMoreOrgs = more,
                             !.pc = IF more THEN "moreOrgs" ELSE "exportOrgs" ]
        /\ requests' = Append(requests, Req("orgs", 0, offset, rsp))
  /\ UNCHANGED << remote, migrationVars >>

(* Mutant: a failed list request ends the traversal and the run goes on    *)
(* with what was fetched.                                                   *)
ThrownSalvage(b, coll) ==
  [ b EXCEPT !.failed = coll,
             !.pc = IF coll = "users" THEN "exportUsers"
                    ELSE IF coll = "orgs" THEN "exportOrgs"
                    ELSE "nextOrg" ]

(* The awaited list request of traversal coll throws inside main(): there   *)
(* is no try around it, so main() rejects with the error.                   *)
Thrown(b, coll) == [ b EXCEPT !.failed = coll, !.pc = "rejected" ]

(* The domains the service lists for an organization: one, named after the *)
(* organization, verified for the organizations with an odd id.             *)
RemoteDomains(org) ==
  << [ name |-> org,
       verification |->
         [ status |-> IF org % 2 = 1 THEN "verified" ELSE "unverified" ],
       enrollment_mode |-> "manual_invitation" ] >>

(* getOrgDomains: the response's data mapped to { domain, verified, mode }. *)
getOrgDomains(orgId) ==
  [ k \in 1..Len(RemoteDomains(orgId)) |->
      [ domain |-> RemoteDomains(orgId)[k].name,
        verified |-> RemoteDomains(orgId)[k].verification.status = "verified",
        mode |-> RemoteDomains(orgId)[k].enrollment_mode ] ]

(* Mutant: the rows in the reverse of the order of the organizations. *)
OrgRowsReversed(orgs, domains) ==
  [ k \in 1..Len(orgs) |->
      [ id |-> orgs[Len(orgs) + 1 - k],
        domains |-> domains[Len(orgs) + 1 - k] ] ]

(* The rows Promise.all resolves to: one per organization, in the order of  *)
(* orgs, whatever the order in which the domain requests completed.         *)
OrgRows(orgs, domains) ==
  [ k \in 1..Len(orgs) |-> [ id |-> orgs[k], domains |-> domains[k] ] ]

(* backup.ts:211-215: orgs.map calls the async function for every           *)
(* organization in turn; each call runs up to its await, so every domain    *)
(* request is under way before any of them completes.                       *)
StartDomains ==
  /\ bk.prog = "backup"
  /\ bk.pc = "exportOrgs"
  /\ bk' = [ bk EXCEPT !.pending = 1..Len(bk.orgs),
                       !.domains = [ k \in 1..Len(bk.orgs) |-> <<>> ],
                       !.pc = "domains" ]
  /\ UNCHANGED << remote, requests, migrationVars >>

(* backup.ts:215-225: one of the outstanding domain requests completes, in  *)
(* any order; its async function returns the row of its organization.       *)
DomainDone ==
  /\ bk.pc = "domains"
  /\ \E k \in bk.pending :
        bk' = [ bk EXCEPT !.pending = bk.pending \ {k},
                          !.domains[k] = getOrgDomains(bk.orgs[k]),
                          !.reordered =
                             bk.reordered \/ \E j \in bk.pending : j < k ]
  /\ UNCHANGED << remote, requests, migrationVars >>

(* backup.ts:125-131 and 211: one of the outstanding domain requests fails  *)
(* (fetch rejects, or the body has no data): its promise rejects, so        *)
(* Promise.all and main() reject.                                           *)
DomainFailed ==
  /\ bk.pc = "domains"
  /\ bk.pending # {}
  /\ bk' = Thrown(bk, "domains")
  /\ UNCHANGED << remote, requests, migrationVars >>

(* backup.ts:227-236: every domain request has completed; the organization  *)
(* rows are written.                                                        *)
ExportOrgsWithDomains ==
  /\ bk.pc = "domains"
  /\ bk.pending = {}
  /\ bk' = [ bk EXCEPT !.orgCsv = OrgRows(bk.orgs, bk.domains),
                       !.backedUpOrgs = Len(bk.orgs),
                       !.pc = "nextOrg" ]
  /\ UNCHANGED << remote, requests, migrationVars >>

(* orgs_get_ids.ts:264-291: the organization rows are written, without     *)
(* domains, in the order the organizations were fetched.                    *)
ExportOrgs ==
  /\ bk.prog = "orgIds"
  /\ bk.pc = "exportOrgs"
  /\ bk' = [ bk EXCEPT !.orgCsv = OrgRows(bk.orgs, [ k \in 1..Len(bk.orgs) |-> <<>> ]),
                       !.backedUpOrgs = Len(bk.orgs),
                       !.pc = "nextOrg" ]
  /\ UNCHANGED << remote, requests, migrationVars >>

(* backup.ts:242-248, orgs_get_ids.ts:293-299: the loop takes the next      *)
(* organization and resets the locals of its traversal.                     *)
MembersStart ==
  /\ bk.pc = "nextOrg"
  /\ bk.o < Len(bk.orgs)
  /\ bk' = [ bk EXCEPT !.o = bk.o + 1,
                       !.orgMemberships = <<>>,
                       !.memberOffset = 0,
                       !.hasMoreMemberships = FALSE,
                       !.pc = "members" ]
  /\ UNCHANGED << remote, requests, migrationVars >>

(* The memberships the service lists for organization org. *)
MembersOf(org) == IF org \in DOMAIN remote.members THEN remote.members[org] ELSE 0

(* backup.ts:249-274, orgs_get_ids.ts:300-325: one list request of the      *)
(* membership traversal; after the last one the records of the              *)
(* organization are pushed.                                                 *)
MembersDoWhile ==
  /\ bk.pc = "members"
  /\ Followed("members", bk.orgs[bk.o])
  /\ LET org == bk.orgs[bk.o]
         rsp == Page(MembersOf(org), bk.memberOffset, bk.limit)
         ms == bk.orgMemberships
                 \o [ k \in 1..Len(rsp.data) |-> [ orgId |-> org, userId |-> rsp.data[k] ] ]
         more == HasMore(rsp.totalCount, Len(ms))
     IN /\ bk' = [ bk EXCEPT !.orgMemberships = ms,
                             !.hasMoreMemberships = more,
                             !.memberOffset = NextOffset(bk.memberOffset, bk.limit),
                             !.orgMemberRecords =
                                IF more THEN bk.orgMemberRecords
                                ELSE bk.orgMemberRecords \o ms,
                             !.pc = IF more THEN "members" ELSE "nextOrg" ]
        /\ requests' = Append(requests, Req("members", org, bk.memberOffset, rsp))
  /\ UNCHANGED << remote, migrationVars >>

(* backup.ts:277-296, orgs_get_ids.ts:328-348: the membership rows are      *)
(* written and main() resolves.                                             *)
ExportMembers ==
  /\ bk.pc = "nextOrg"
  /\ bk.o >= Len(bk.orgs)
  /\ bk' = [ bk EXCEPT !.memberCsv = bk.orgMemberRecords,
                       !.backedUpMemberships = Len(bk.orgMemberRecords),
                       !.pc = "done" ]
  /\ UNCHANGED << remote, requests, migrationVars >>

(* backup.ts:148-152, part_000:66-69 and 76-80, orgs_get_ids.ts:188-190 and *)
(* 197-201: a list request of the user traversal fails.                     *)
UsersRequestFailed ==
  /\ bk.pc \in {"users", "moreUsers"}
  /\ requests' = Append(requests,
        FailedReq("users", 0,
                  IF bk.pc = "moreUsers" THEN NextOffset(bk.offset, bk.limit)
                  ELSE bk.offset))
  /\ bk' = Thrown(bk, "users")
  /\ UNCHANGED << remote, migrationVars >>

(* backup.ts:197-201, orgs_get_ids.ts:246-248 and 254-258: a list request   *)
(* of the organization traversal fails.                                     *)
OrgsRequestFailed ==
  /\ bk.pc \in {"orgs", "moreOrgs"}
  /\ requests' = Append(requests,
        FailedReq("orgs", 0,
                  IF bk.pc = "moreOrgs" THEN NextOffset(bk.offset, bk.limit)
                  ELSE bk.offset))
  /\ bk' = Thrown(bk, "orgs")
  /\ UNCHANGED << remote, migrationVars >>

(* backup.ts:250-255, orgs_get_ids.ts:301-306: a list request of a          *)
(* membership traversal fails.                                              *)
MembersRequestFailed ==
  /\ bk.pc = "members"
  /\ requests' = Append(requests,
                        FailedReq("members", bk.orgs[bk.o], bk.memberOffset))
  /\ bk' = Thrown(bk, "members")
  /\ UNCHANGED << remote, migrationVars >>

(* The service between two list requests of the user traversal: a user is  *)
(* added or removed, so the next response reports another total.            *)
RemoteUsersChange ==
  /\ bk.pc \in {"users", "moreUsers"}
  /\ RequestsFor("users", 0) # <<>>
  /\ remote.changes < MaxChanges
  /\ \E n \in {remote.users - 1, remote.users + 1} :
        /\ n \in 0..MaxUsers
        /\ remote' = [ remote EXCEPT !.users = n, !.changes = remote.changes + 1 ]
  /\ UNCHANGED << bk, requests, migrationVars >>

NextBackup ==
  \/ RemoteUsersChange
  \/ UsersRequestFailed
  \/ OrgsRequestFailed
  \/ MembersRequestFailed
  \/ UsersDoWhile
  \/ UsersFirst
  \/ UsersMore
  \/ ExportUsers
  \/ OrgsDoWhile
  \/ OrgsFirst
  \/ OrgsMore
  \/ ExportOrgs
  \/ StartDomains
  \/ DomainDone
  \/ DomainFailed
  \/ ExportOrgsWithDomains
  \/ MembersStart
  \/ MembersDoWhile
  \/ ExportMembers

SpecBackup == InitBackup /\ [][NextBackup]_vars

----------------------------------------------------------------------------
(* Vocabulary of the claims about the backup runs. *)

(* The least number of pages of size p that hold t items. *)
CeilDiv(t, p) == (t + p - 1) \div p

(* The larger of two numbers. *)
Max(a, b) == IF a >= b THEN a ELSE b

(* The items 1..n in order. *)
UpTo(n) == [ k \in 1..n |-> k ]

(* No collection has changed its size since the run began. *)
StableTotals == remote.changes = 0

(* The user traversal is under way, its first response handled. *)
UsersPending ==
  bk.pc \in {"users", "moreUsers"} /\ RequestsFor("users", 0) # <<>>

(* The user traversal has stopped. *)
UsersStopped ==
  bk.pc \notin {"idle", "users", "moreUsers"} /\ bk.failed # "users"

OrgsPending ==
  bk.pc \in {"orgs", "moreOrgs"} /\ RequestsFor("orgs", 0) # <<>>

OrgsStopped == bk.pc \in {"exportOrgs", "domains", "nextOrg", "members", "done"}
                 /\ bk.prog # "userBackup"

(* The membership traversal of the current organization is under way. *)
MembersPending ==
  bk.pc = "members" /\ RequestsFor("members", bk.orgs[bk.o]) # <<>>

(* The membership traversal of the current organization has stopped. *)
MembersStopped == bk.pc = "nextOrg" /\ bk.o > 0

(* C2: with a stable total T and page size P, a traversal issues exactly    *)
(* ceil(T/P) list requests and returns exactly T items, also for T = 0.     *)
C2_CeilRequests ==
  (UsersStopped /\ StableTotals) =>
     /\ Len(RequestsFor("users", 0)) = CeilDiv(remote.users, bk.limit)
     /\ bk.users = UpTo(remote.users)

(* C2, amended: with a stable total T and page size P, the user traversal   *)
(* issues exactly max(1, ceil(T/P)) list requests (one request when T = 0)  *)
(* and returns exactly the T items; while it is under way it has issued     *)
(* fewer requests than that.                                                *)
C2_AtLeastOneRequest ==
  LET pages == Max(1, CeilDiv(remote.users, bk.limit))
  IN /\ (UsersStopped /\ StableTotals) =>
           /\ Len(RequestsFor("users", 0)) = pages
           /\ bk.users = UpTo(remote.users)
     /\ (UsersPending /\ StableTotals) => Len(RequestsFor("users", 0)) < pages

C2_Witness ==
  /\ UsersStopped
  /\ StableTotals
  /\ remote.users = 3
  /\ bk.limit = 2
  /\ Len(RequestsFor("users", 0)) = 2

(* C3: every traversal (users, organizations, memberships of one            *)
(* organization) goes on exactly while the count it has accumulated is      *)
(* below the total of its own collection, and so returns all the items of   *)
(* that collection and no page more, whatever the other totals are.         *)
C3_StopsOnOwnTotal ==
  StableTotals =>
     /\ UsersPending => Len(bk.users) < remote.users
     /\ UsersStopped => bk.users = UpTo(remote.users)
     /\ OrgsPending => Len(bk.orgs) < remote.orgs
     /\ OrgsStopped => bk.orgs = UpTo(remote.orgs)
     /\ MembersPending => Len(bk.orgMemberships) < MembersOf(bk.orgs[bk.o])
     /\ MembersStopped => Len(bk.orgMemberships) = MembersOf(bk.orgs[bk.o])

----------------------------------------------------------------------------
(* Further vocabulary of the claims about the migration run. *)

(* The non-production override is explicitly turned on. *)
OverrideOn(e) == e.IMPORT_TO_DEV_INSTANCE = <<"t", "r", "u", "e">>

(* Nothing of a run has happened: the input is not read, no sleep and no    *)
(* remote request is made, no counter is changed, nothing is logged.        *)
NothingDone ==
  /\ offsetUsers = <<>>
  /\ trace = <<>>
  /\ log = <<>>
  /\ migrated = 0
  /\ updated = 0
  /\ store = store0

(* C11: when the credential is absent, or its second underscore-separated  *)
(* segment is not "live" and the override is not explicitly turned on, the *)
(* process aborts before the input is read: no remote request, no counter   *)
(* change and no audit append ever happens.                                 *)
C11_AbortsWithoutOverride ==
  (KeyMissing(env) \/ (KeySegment(env) # <<"l", "i", "v", "e">> /\ ~OverrideOn(env)))
     => pc \in {"module", "aborted"} /\ NothingDone

(* The record fails validation: its identifier is missing or is no string,  *)
(* its email is missing or is not email-shaped, or its consent flag is      *)
(* missing or is no boolean.                                                *)
FailsValidation(r) ==
  \/ ~IsString(r.userId)
  \/ ~IsEmail(r.email)
  \/ ~IsBoolean(r.agreedTerms)

(* C12: for a record that fails validation no remote request is issued (its *)
(* only event is its pacing sleep), exactly one audit entry is appended, by *)
(* the time the record is done, and the run goes on: it is never halted on  *)
(* that record, and the next record, if any, starts with its pacing sleep.  *)
C12_InvalidLoggedOnce ==
  \A rec \in Recs :
     (FailsValidation(offsetUsers[rec]) /\ rec <= cur) =>
        /\ EventsOf(rec) = << Ev("cooldown", rec, PacingSleep) >>
        /\ Len(AuditOf(rec)) = (IF Resolved(rec) THEN 1 ELSE 0)
        /\ Resolved(rec) =>
              /\ AuditOf(rec)[1].userId = offsetUsers[rec].userId
              /\ AuditOf(rec)[1].error = ZodError
        /\ rec = cur => pc \in {"cooldown", "create", "loop", "done"}
        /\ rec < cur => Count("cooldown", rec + 1) = 1
        /\ ~Created(rec)
        /\ ~Updated(rec)

C12_Witness ==
  /\ pc = "done"
  /\ Len(offsetUsers) = 2
  /\ FailsValidation(offsetUsers[1])
  /\ ~IsBoolean(offsetUsers[1].agreedTerms)
  /\ Created(2)
  /\ Len(log) = 1

(* The sleeps: the pacing sleep and the cooldown sleep. *)
Sleeps == {"cooldown", "rateLimitCooldown"}

(* C13: every record the loop has taken has had exactly one pacing sleep,   *)
(* the first of its events (so a run that reaches the end of n records has  *)
(* made n pacing sleeps), and every create attempt comes right after a      *)
(* completed sleep of its record: the pacing sleep or a cooldown sleep.     *)
C13_PacedCreates ==
  /\ \A rec \in Recs :
        /\ Count("cooldown", rec) = (IF rec <= cur THEN 1 ELSE 0)
        /\ rec <= cur => EventsOf(rec)[1] = Ev("cooldown", rec, PacingSleep)
  /\ \A k \in 1..Len(trace) :
        trace[k].op = "createUser" =>
           /\ k > 1
           /\ trace[k - 1].rec = trace[k].rec
           /\ trace[k - 1].op \in Sleeps
  /\ pc \in Sleeps =>
        /\ trace[Len(trace)].op = pc
        /\ trace[Len(trace)].rec = cur
  /\ pc = "create" => trace[Len(trace)].op \in Sleeps /\ trace[Len(trace)].rec = cur
  /\ pc = "done" =>
        Len(SelectSeq(trace, LAMBDA e : e.op = "cooldown")) = Len(offsetUsers)

C13_Witness ==
  /\ pc = "done"
  /\ Len(offsetUsers) = 2
  /\ CountCreate(1, 429) = 1
  /\ Created(1)
  /\ Created(2)

(* Sequence s is a prefix of sequence t. *)
IsPrefix(s, t) == Len(s) <= Len(t) /\ SubSeq(t, 1, Len(s)) = s

(* C14: within a run the audit log only grows at its end, by at most one    *)
(* entry a step; a record has at most one audit entry, and once it has one  *)
(* it is done: processUserToClerk has returned for it and no sleep or       *)
(* remote call is made for it any more.                                     *)
C14_AppendOnly ==
  /\ [](\A rec \in Recs :
           /\ Len(AuditOf(rec)) <= 1
           /\ AuditOf(rec) # <<>> => Resolved(rec))
  /\ [][ /\ IsPrefix(log, log')
         /\ Len(log') <= Len(log) + 1
         /\ \A rec \in Recs :
               AuditOf(rec) # <<>> => EventsOf(rec)' = EventsOf(rec) ]_vars

(* Two records have been logged, the first after a rate-limit retry. *)
C14_Witness ==
  /\ pc = "done"
  /\ Len(log) = 2
  /\ log[1].rec = 1
  /\ log[2].rec = 2
  /\ CountCreate(1, 429) = 1

(* The resume offset the environment gives: 0 when it gives none. *)
ResumeOffset ==
  IF env.OFFSET = Undefined THEN 0
  ELSE CHOOSE k \in 0..9 : env.OFFSET = NumText(k)

(* The elements of the file at indices k .. n-1 (counted from 0), in order. *)
FromIndex(k) ==
  [ j \in 1..(IF k >= Len(file) THEN 0 ELSE Len(file) - k) |-> file[k + j] ]

(* The records whose processing has begun, in the order it began. *)
Begun ==
  LET sleeps == SelectSeq(trace, LAMBDA e : e.op = "cooldown")
  IN [ j \in 1..Len(sleeps) |-> offsetUsers[sleeps[j].rec] ]

(* C15: with resume offset k the records processed are the elements of the  *)
(* input at indices k .. n-1, in input order, none when k >= n: processing  *)
(* begins for them one after the other and a run that reaches its end has   *)
(* processed them all. No element before index k is behind any sleep,       *)
(* remote request, audit entry or created entity.                           *)
C15_ResumeOffset ==
  LET todo == FromIndex(ResumeOffset)
  IN /\ pc \in {"module", "aborted", "main"} => NothingDone
     /\ pc \notin {"module", "aborted", "main"} => offsetUsers = todo
     /\ IsPrefix(Begun, todo)
     /\ pc = "done" => Begun = todo /\ printed = << migrated, updated >>
     /\ \A k \in 1..Len(trace) : offsetUsers[trace[k].rec] = todo[trace[k].rec]
     /\ \A a \in 1..Len(log) : log[a].userId = todo[log[a].rec].userId
     /\ \A e \in 1..Len(store) :
           e > Len(store0) =>
              \E rec \in 1..Len(todo) : store[e].email = todo[rec].email

C15_Witness ==
  /\ pc = "done"
  /\ ResumeOffset = 1
  /\ file = << RecJane, RecCher >>
  /\ Begun = << RecCher >>
  /\ Created(1)
  /\ Len(store) = 1

(* The entity with this id. *)
EntityOf(entities, id) == entities[CHOOSE k \in 1..Len(entities) : entities[k].id = id]

TraversalRank(coll) ==
  IF coll = "users" THEN 1 ELSE IF coll = "orgs" THEN 2 ELSE 3

(* C17: a list request that fails is the last request of the run: the        *)
(* failure leaves main() rejected and no step follows. Nothing the failed    *)
(* traversal had fetched is written: the output of its collection (and of    *)
(* the collections traversed after it) stays empty and its count stays 0.    *)
C17_FailureHalts ==
  /\ \A k \in 1..Len(requests) :
        ~requests[k].ok =>
           /\ k = Len(requests)
           /\ bk.pc = "rejected"
           /\ bk.failed = requests[k].coll
  /\ (bk.pc = "rejected" /\ bk.failed # "domains") =>
        /\ ~ENABLED NextBackup
        /\ requests # <<>> /\ ~requests[Len(requests)].ok
        /\ TraversalRank(bk.failed) <= 1 =>
              bk.userCsv = <<>> /\ bk.backedUpUsers = 0
        /\ TraversalRank(bk.failed) <= 2 =>
              bk.orgCsv = <<>> /\ bk.backedUpOrgs = 0
        /\ bk.memberCsv = <<>> /\ bk.backedUpMemberships = 0
  /\ bk.pc # "rejected" => bk.failed = "none"

(* The second page request of the organization traversal failed. *)
C17_Witness ==
  /\ bk.pc = "rejected"
  /\ bk.failed = "orgs"
  /\ bk.prog = "backup"
  /\ Len(bk.orgs) > 0
  /\ Len(RequestsFor("orgs", 0)) = 2
  /\ bk.userCsv # <<>>

(* C18: when no remote call hangs and the service eventually stops          *)
(* answering create with a rate-limit signal, a run that has passed the     *)
(* configuration checks eventually processes every record of the trimmed    *)
(* input, completes, and reports its created and updated counts.            *)
C18_RunCompletes ==
  (pc = "main") ~>
     (/\ pc = "done"
      /\ cur = Len(offsetUsers)
      /\ printed = << migrated, updated >>)

(* The name without the spaces before its first and after its last          *)
(* character that is not a space.                                           *)
Trimmed(name) ==
  LET solid == { k \in 1..Len(name) : name[k] # " " }
  IN IF solid = {} THEN <<>>
     ELSE SubSeq(name, CHOOSE a \in solid : \A k \in solid : a <= k,
                       CHOOSE b \in solid : \A k \in solid : b >= k)

(* The positions of the spaces of a text: it has one token more than spaces. *)
Spaces(t) == { k \in 1..Len(t) : t[k] = " " }

(* What name splitting is to yield for a name. *)
SplitAs(name) ==
  IF name = Undefined \/ name = Quote THEN << Undefined, Undefined >>
  ELSE LET t == Trimmed(name)
       IN IF Cardinality(Spaces(t)) = 1
          THEN LET sp == CHOOSE k \in Spaces(t) : TRUE
               IN << SubSeq(t, 1, sp - 1), SubSeq(t, sp + 1, Len(t)) >>
          ELSE << t, Undefined >>

(* C19: name splitting. A name that is exactly one quotation mark (and an   *)
(* absent name) yields (absent, absent); any other name is trimmed and      *)
(* split on single spaces: exactly two tokens yield (first, second), any    *)
(* other number of tokens, empty tokens between consecutive spaces          *)
(* included, yields (the whole trimmed name, absent). The create request of *)
(* a record carries that first and last name.                               *)
C19_SplitName ==
  \A rec \in Recs :
     LET r == offsetUsers[rec]
     IN (r.name = Undefined \/ IsString(r.name)) =>
           /\ splitName(r.name) = SplitAs(r.name)
           /\ CreatePayload(r).firstName = SplitAs(r.name)[1]
           /\ CreatePayload(r).lastName = SplitAs(r.name)[2]
           /\ (Created(rec) /\ SchemaOk(r)) =>
                 \E e \in 1..Len(store) :
                    /\ store[e].email = r.email
                    /\ store[e].firstName = Stored(SplitAs(r.name)[1])
                    /\ store[e].lastName = Stored(SplitAs(r.name)[2])

(* A record whose name has two spaces in a row was created with the whole   *)
(* trimmed name as its first name.                                          *)
C19_Witness ==
  /\ pc = "done"
  /\ Len(offsetUsers) = 1
  /\ offsetUsers[1].name = << " ", "a", " ", " ", "a" >>
  /\ Created(1)
  /\ store[1].firstName = << "a", " ", " ", "a" >>
  /\ store[1].lastName = Null

----------------------------------------------------------------------------
(* Further vocabulary of the claims about the backup runs. *)

(* The answered list requests of a traversal, in request order. *)
Answered(coll, org) == SelectSeq(RequestsFor(coll, org), LAMBDA r : r.ok)

(* The items of the pages of these requests, one page after the other. *)
RECURSIVE Flatten(_)
Flatten(reqs) ==
  IF reqs = <<>> THEN <<>> ELSE Head(reqs).data \o Flatten(Tail(reqs))

(* The total the first response of a traversal reported. *)
FirstTotal(coll, org) == Answered(coll, org)[1].total

(* The total the latest response of a traversal reported. *)
LatestTotal(coll, org) == Answered(coll, org)[Len(Answered(coll, org))].total

(* The k-th request of every traversal, k counted from 0, has offset        *)
(* k * pageSize.                                                            *)
OffsetsByPage ==
  \A k \in 1..Len(requests) :
     LET r == requests[k]
         before == SelectSeq(SubSeq(requests, 1, k - 1),
                             LAMBDA q : q.coll = r.coll /\ q.org = r.org)
     IN r.offset = Len(before) * bk.limit

(* What every traversal has accumulated is its pages in request order. *)
PagesInOrder ==
  /\ bk.pc # "idle" => bk.users = Flatten(Answered("users", 0))
  /\ bk.pc # "idle" => bk.orgs = Flatten(Answered("orgs", 0))
  /\ (bk.pc \in {"members", "nextOrg"} /\ bk.o > 0) =>
        [ k \in 1..Len(bk.orgMemberships) |-> bk.orgMemberships[k].userId ]
           = Flatten(Answered("members", bk.orgs[bk.o]))

UsersTotalRead ==
  IF bk.prog = "backup" THEN LatestTotal("users", 0) ELSE FirstTotal("users", 0)

----------------------------------------------------------------------------
(* Claims about the outcomes and the counters of the migration run. *)

(* 1 when the condition holds, 0 when not. *)
One(cond) == IF cond THEN 1 ELSE 0

(* C21: every record for which processUserToClerk has returned ended in     *)
(* exactly one of Created, Updated, NoChangeNeeded or one audit entry; a    *)
(* record whose create conflicted and whose lookup by email found no entity *)
(* is among them.                                                           *)
C21_OutcomeTotal ==
  \A rec \in Recs :
     Resolved(rec) =>
        One(Created(rec)) + One(Updated(rec)) + One(NoChangeNeeded(rec))
           + Len(AuditOf(rec)) = 1

(* The latest event of the history. *)
Latest(events) == events[Len(events)]

(* C22: the created and updated counters and the audit entries together are *)
(* never more than the records whose processing has started; a record is    *)
(* counted by at most one counter, once, however often it was retried; and  *)
(* a counter changes only by 1, in the step in which the create (for        *)
(* created) or the update (for updated) of the current record returned      *)
(* successfully.                                                            *)
C22_Counters ==
  /\ [](/\ migrated + updated + Len(log) <= i
        /\ i <= Len(offsetUsers)
        /\ migrated = Cardinality({ rec \in Recs : Created(rec) })
        /\ updated = Cardinality({ rec \in Recs : Updated(rec) })
        /\ \A rec \in Recs :
              /\ ~(Created(rec) /\ Updated(rec))
              /\ CountCreate(rec, 200) <= 1
              /\ Len(SelectSeq(trace, LAMBDA e :
                    e.rec = rec /\ e.op = "updateUser" /\ e.val = 200)) <= 1)
  /\ [][ /\ migrated' \in {migrated, migrated + 1}
         /\ updated' \in {updated, updated + 1}
         /\ migrated' # migrated =>
               /\ trace' = Append(trace, Ev("createUser", cur, 200))
               /\ updated' = updated
         /\ updated' # updated =>
               /\ Len(trace') = Len(trace) + 1
               /\ Latest(trace').op = "updateUser"
               /\ Latest(trace').rec = cur
               /\ Latest(trace').val = 200 ]_vars

(* A record created after a rate-limit retry and a record updated. *)
C22_Witness ==
  /\ pc = "done"
  /\ Len(offsetUsers) = 2
  /\ Created(1)
  /\ CountCreate(1, 429) = 1
  /\ Updated(2)
  /\ migrated = 1
  /\ updated = 1

(* C23: once a record has resolved to Updated, the service having stored    *)
(* the update payload, the next reconciliation of the same record finds no  *)
(* differing field and issues no update, whatever the record: a name that   *)
(* is absent or of one token and an absent organization hint included.      *)
C23_Converges ==
  \A a, b \in Recs :
     (b = a + 1 /\ offsetUsers[a] = offsetUsers[b] /\ Updated(a)) =>
        /\ Count("updateUser", b) = 0
        /\ ~(cur = b /\ pc = "updateUser")

----------------------------------------------------------------------------
(* Claims about the two forms of the paginator. *)

(* The offsets of the requests of a traversal, in request order. *)
OffsetsOf(coll, org) ==
  [ k \in 1..Len(RequestsFor(coll, org)) |-> RequestsFor(coll, org)[k].offset ]

(* The offsets a traversal of t items by pages of p is to request: 0, p,    *)
(* 2p, ... up to the page that holds the last item, and 0 alone when t = 0. *)
PageOffsets(t, p) == [ k \in 1..Max(1, CeilDiv(t, p)) |-> (k - 1) * p ]

OrgRowsWritten ==
  \/ bk.pc \in {"nextOrg", "members", "done"}
  \/ bk.pc = "rejected" /\ bk.failed = "members"

(* C25: in the backup's organization export the domain requests of all the  *)
(* fetched organizations are under way together and complete in any order;  *)
(* no row is written before all of them have completed; the rows then       *)
(* written are one per organization, in the order the organizations were    *)
(* fetched, each with the domains of its own organization; and when one of  *)
(* the requests fails the run ends with no organization row written.        *)
C25_OrgExport ==
  bk.prog = "backup" =>
    /\ bk.pc = "domains" =>
          /\ bk.orgCsv = <<>> /\ bk.backedUpOrgs = 0
          /\ \A k \in 1..Len(bk.orgs) :
                \/ k \in bk.pending /\ ENABLED DomainDone
                \/ k \notin bk.pending
                     /\ bk.domains[k] = getOrgDomains(bk.orgs[k])
    /\ OrgRowsWritten =>
          /\ Len(bk.orgCsv) = Len(bk.orgs)
          /\ bk.backedUpOrgs = Len(bk.orgs)
          /\ \A k \in 1..Len(bk.orgs) :
                /\ bk.orgCsv[k].id = bk.orgs[k]
                /\ bk.orgCsv[k].domains = getOrgDomains(bk.orgs[k])
                /\ \A d \in 1..Len(bk.orgCsv[k].domains) :
                      bk.orgCsv[k].domains[d].domain = bk.orgs[k]
    /\ bk.failed = "domains" =>
          /\ bk.pc = "rejected"
          /\ ~ENABLED NextBackup
          /\ bk.orgCsv = <<>> /\ bk.backedUpOrgs = 0
          /\ bk.memberCsv = <<>>

(* The backup has written the rows of three organizations whose domain     *)
(* requests completed in another order than they were started.              *)
C25_Witness ==
  /\ bk.prog = "backup"
  /\ bk.pc = "done"
  /\ bk.reordered
  /\ bk.orgs = <<1, 2, 3>>
  /\ bk.orgCsv = OrgRows(<<1, 2, 3>>,
                         << getOrgDomains(1), getOrgDomains(2), getOrgDomains(3) >>)

(* A domain request has failed while others were outstanding or done. *)
C25_WitnessFailed ==
  /\ bk.prog = "backup"
  /\ bk.failed = "domains"
  /\ Len(bk.orgs) >= 2
  /\ bk.pending # {} /\ bk.pending # 1..Len(bk.orgs)

====
